---- MODULE Spec2Model ----
(***************************************************************************)
(* Model of the map cross-filter of dashboard_app.py: the session's        *)
(* map_filter, the two operations that replace it (set_map_filter,         *)
(* reset_map), the pure selection filtered_points, and the top-to-bottom   *)
(* script run in which the widgets' handlers call them.                    *)
(*                                                                         *)
(* Three specifications share the variables:                               *)
(*   SpecSel  filtered_points applied to bounded point sets and filters;   *)
(*   SpecApi  set_map_filter / reset_map called with arbitrary arguments;  *)
(*   Spec     the dashboard script driven by user interactions             *)
(*            (FairSpec: the same with the script always running on).      *)
(***************************************************************************)
EXTENDS Integers, Sequences, FiniteSets, TLC

VARIABLES
    snip,         \* the project-level dataframe (line 39, coerced at 46-49)
    map_filter,   \* st.session_state["map_filter"], or NotSet
    pc,           \* position of the script run / of the call
    sel,          \* row selection held by each selectable table (0: none)
    buttons,      \* buttons whose click triggered the current run
    pts,          \* the dataframe computed at line 272 and given to render_map
    n_updates,    \* changes of map_filter since the last user interaction
    n_reruns,     \* st.rerun() calls since the last user interaction
    interacted,   \* whether any user interaction has happened
    prev,         \* the local 'prev' of the last set_map_filter/reset_map call
    signal,       \* whether the last call ended in st.rerun()
    n_calls,      \* number of direct calls made (SpecApi)
    scen,         \* progress along the sequence set(CODEDE X), reset, set(CODEDE X)
    first         \* map_filter after the first call of that sequence

vars == <<snip, map_filter, pc, sel, buttons, pts, n_updates, n_reruns,
          interacted, prev, signal, n_calls, scen, first>>

-----------------------------------------------------------------------------
(* Bounds *)

\* longest point set given to filtered_points in SpecSel
MaxPoints == 2
\* number of direct calls in SpecApi
MaxCalls == 3
\* cap of the per-interaction counters n_updates and n_reruns
MaxCount == 3

-----------------------------------------------------------------------------
(* Cells: the values held by dataframe cells and by the filter's payload.  *)
(* Num(n) is the number n, Half(n) the number n + 1/2, Str(s) a text,      *)
(* NaN the missing value of pandas, None Python's None.                    *)

Num(n) == <<"num", n>>
Half(n) == <<"frac", n>>
Str(s) == <<"str", s>>
NaN == <<"nan">>
None == <<"none">>

isna(c) == c[1] \in {"nan", "none"}

\* pd.to_numeric(x, errors="coerce"): numbers are kept, anything else
\* (missing, non-numeric text) becomes NaN
to_numeric(c) == IF c[1] \in {"num", "frac"} THEN c ELSE NaN

\* Series.fillna(v)
fillna(c, v) == IF isna(c) THEN Num(v) ELSE c

\* Series.astype(int) of a non-missing number: truncation toward zero
astype_int(c) ==
    IF c[1] = "num" THEN c[2]
    ELSE IF c[2] >= 0 THEN c[2] ELSE c[2] + 1

\* elementwise == of pandas: a missing value on either side compares False
PdEq(c, v) == (~isna(c)) /\ (~isna(v)) /\ c = v

\* dict.get(key, default)
dict_get(d, k, default) == IF k \in DOMAIN d THEN d[k] ELSE default

-----------------------------------------------------------------------------
(* Dataframes: [columns |-> set of names, rows |-> sequence of rows], a    *)
(* row being a function from the columns to cells.                         *)

Frame(cols, rows) == [columns |-> cols, rows |-> rows]

\* d[col] = f(d[col]) on every row
AssignColumn(d, col, f(_)) ==
    Frame(d.columns,
          [i \in 1..Len(d.rows) |->
              [c \in d.columns |-> IF c = col THEN f(d.rows[i][c]) ELSE d.rows[i][c]]])

\* d[mask]: the rows whose mask entry is TRUE, in their original order
BoolIndex(d, mask) ==
    LET keep(i) == mask[i]
        idx == SelectSeq([i \in 1..Len(d.rows) |-> i], keep)
    IN  Frame(d.columns, [k \in 1..Len(idx) |-> d.rows[idx[k]]])

\* d.dropna(subset=["latitud","longitud"])
dropnaLatOnly(d, subset) ==
    BoolIndex(d, [i \in 1..Len(d.rows) |-> ~isna(d.rows[i]["latitud"])])

dropna(d, subset) ==
    BoolIndex(d, [i \in 1..Len(d.rows) |-> \A c \in subset : ~isna(d.rows[i][c])])

\* d[col] == v, as a boolean mask
EqMask(d, col, v) == [i \in 1..Len(d.rows) |-> PdEq(d.rows[i][col], v)]

\* m1 & m2
AndMask(m1, m2) == [i \in DOMAIN m1 |-> m1[i] /\ m2[i]]

\* d["flag_inconsistencia_estado_momento"].fillna(0).astype(int) == 1
FlagMaskNoTrunc(d) ==
    [i \in 1..Len(d.rows) |->
        fillna(d.rows[i]["flag_inconsistencia_estado_momento"], 0) \notin {Num(0)}]

FlagMask(d) ==
    [i \in 1..Len(d.rows) |->
        astype_int(fillna(d.rows[i]["flag_inconsistencia_estado_momento"], 0)) = 1]

\* the MUNICIPIO mask of line 175
MunicipioMaskOr(d, mf) ==
    [i \in 1..Len(d.rows) |->
        \/ EqMask(d, "departamento", dict_get(mf, "departamento", None))[i]
        \/ EqMask(d, "municipio", dict_get(mf, "municipio", None))[i]]

MunicipioMask(d, mf) ==
    AndMask(EqMask(d, "departamento", dict_get(mf, "departamento", None)),
            EqMask(d, "municipio", dict_get(mf, "municipio", None)))

AllFilter == [kind |-> Str("ALL")]

filtered_points(df_snip, mf) ==
    IF ~({"latitud", "longitud"} \subseteq df_snip.columns)
    THEN Frame(df_snip.columns, <<>>)
    ELSE
      LET d == dropna(AssignColumn(AssignColumn(df_snip, "latitud", to_numeric),
                                   "longitud", to_numeric),
                      {"latitud", "longitud"})
          kind == dict_get(mf, "kind", Str("ALL"))
      IN  IF kind = Str("ALL") THEN d
          ELSE IF kind = Str("SNIP")
            THEN BoolIndex(d, EqMask(d, "snip", dict_get(mf, "snip", None)))
          ELSE IF kind = Str("MUNICIPIO")
            THEN BoolIndex(d, MunicipioMask(d, mf))
          ELSE IF kind = Str("CODEDE")
            THEN BoolIndex(d, EqMask(d, "departamento", dict_get(mf, "departamento", None)))
          ELSE IF kind = Str("ENTIDAD")
            THEN BoolIndex(d, EqMask(d, "entidad_ejecutora",
                                     dict_get(mf, "entidad_ejecutora", None)))
          ELSE IF kind = Str("ESTADO")
            THEN BoolIndex(d, EqMask(d, "estado_auditoria",
                                     dict_get(mf, "estado_auditoria", None)))
          ELSE IF kind = Str("FLAG_INCONSISTENCIA")
            THEN BoolIndex(d, FlagMask(d))
          ELSE d

-----------------------------------------------------------------------------
(* The datasets *)

SnipColumns ==
    {"snip", "departamento", "municipio", "entidad_ejecutora", "estado_auditoria",
     "flag_inconsistencia_estado_momento", "latitud", "longitud",
     "riesgo_fiscal", "no_ejecutado_vigente"}

Point(s, dep, mun, en, est, flag, lat, lon, riesgo) ==
    [c \in SnipColumns |->
        CASE c = "snip" -> s
          [] c = "departamento" -> dep
          [] c = "municipio" -> mun
          [] c = "entidad_ejecutora" -> en
          [] c = "estado_auditoria" -> est
          [] c = "flag_inconsistencia_estado_momento" -> flag
          [] c = "latitud" -> lat
          [] c = "longitud" -> lon
          [] c = "riesgo_fiscal" -> riesgo
          [] OTHER -> Num(0)]

\* lines 46-49: the numeric columns of snip are coerced after loading
NumericColumns == {"flag_inconsistencia_estado_momento", "riesgo_fiscal", "no_ejecutado_vigente"}

coerce_snip(df) ==
    Frame(df.columns,
          [i \in 1..Len(df.rows) |->
              [c \in df.columns |->
                  IF c \in NumericColumns THEN to_numeric(df.rows[i][c])
                  ELSE df.rows[i][c]]])

Gua == Str("Guatemala")
Pet == Str("Peten")
SanJose == Str("San Jose")
Flores == Str("Flores")
Muni1 == Str("MUNICIPALIDAD")
Mides == Str("MIDES")
Finalizado == Str("FINALIZADO")
EnEjecucion == Str("EN EJECUCION")

BasePoint(s, dep, mun, en, est) ==
    Point(s, dep, mun, en, est, Num(0), Num(14), Num(-90), Num(1))

FlagPoint(flag, lat, lon) ==
    Point(Num(1), Gua, SanJose, Muni1, Finalizado, flag, lat, lon, Num(1))

\* the raw rows the point sets of SpecSel are drawn from: rows differing in one
\* attribute at a time, every kind of flag value, and every way of lacking a
\* coordinate
RawPoints ==
    {BasePoint(Num(1), Gua, SanJose, Muni1, Finalizado),
     BasePoint(Num(2), Gua, SanJose, Muni1, Finalizado),
     BasePoint(Num(1), Gua, Flores, Muni1, Finalizado),
     BasePoint(Num(1), Pet, SanJose, Muni1, Finalizado),
     BasePoint(Num(1), Pet, Flores, Muni1, Finalizado),
     BasePoint(Num(1), Gua, SanJose, Mides, Finalizado),
     BasePoint(Num(1), Gua, SanJose, Muni1, EnEjecucion),
     BasePoint(Num(1), Gua, SanJose, Muni1, NaN),
     BasePoint(Num(1), NaN, SanJose, Muni1, Finalizado)}
    \cup {FlagPoint(f, Num(14), Num(-90)) :
            f \in {NaN, Num(1), Num(2), Num(-1), Half(0), Half(1), Str("si")}}
    \cup {FlagPoint(Num(1), NaN, Num(-90)),
          FlagPoint(Num(1), Num(14), NaN),
          FlagPoint(Num(0), Str("n/d"), Num(-90)),
          FlagPoint(Num(0), Num(14), Str("n/d"))}

SeqsUpTo(S, n) == UNION {[1..k -> S] : k \in 0..n}

\* a frame without some columns (a CSV extract lacking them)
DropColumns(df, cols) ==
    Frame(df.columns \ cols,
          [i \in 1..Len(df.rows) |-> [c \in df.columns \ cols |-> df.rows[i][c]]])

\* the filter states given to filtered_points in SpecSel: every variant with
\* matching and non-matching payloads, and a kind outside the tag set
Payload1(k, v) == [f \in {k} |-> v]

MkFilter(kind, payload) ==
    [f \in {"kind"} \cup DOMAIN payload |-> IF f = "kind" THEN Str(kind) ELSE payload[f]]

SelFilters ==
    {AllFilter, MkFilter("FLAG_INCONSISTENCIA", <<>>), MkFilter("OTRO", <<>>)}
    \cup {MkFilter("SNIP", Payload1("snip", Num(n))) : n \in {1, 2, 12345}}
    \cup {MkFilter("MUNICIPIO", [departamento |-> d, municipio |-> m]) :
            d \in {Gua, Pet}, m \in {SanJose}}
    \cup {MkFilter("CODEDE", Payload1("departamento", d)) : d \in {Gua, Pet}}
    \cup {MkFilter("ENTIDAD", Payload1("entidad_ejecutora", e)) : e \in {Muni1, Mides}}
    \cup {MkFilter("ESTADO", Payload1("estado_auditoria", e)) : e \in {Finalizado, EnEjecucion}}

\* the key "map_filter" is not in st.session_state
NotSet == [unset |-> TRUE]
NoFrame == Frame({}, <<>>)

\* the variables a specification does not use keep these values
IdleSel == [t \in {"estado", "top", "snip", "mun", "cod", "ent"} |-> 0]

-----------------------------------------------------------------------------
(* SpecSel: filtered_points as a pure function of a point set and a filter *)

InitSel ==
    /\ \E rows \in SeqsUpTo(RawPoints, MaxPoints), drop \in {{}, {"latitud"}, {"longitud"}} :
          /\ drop # {} => Len(rows) = 1
          /\ snip = coerce_snip(DropColumns(Frame(SnipColumns, rows), drop))
    /\ map_filter \in SelFilters
    /\ pc = "sel_call"
    /\ sel = IdleSel
    /\ buttons = {}
    /\ pts = NoFrame
    /\ n_updates = 0 /\ n_reruns = 0 /\ interacted = FALSE
    /\ prev = NotSet /\ signal = FALSE /\ n_calls = 0 /\ scen = 0 /\ first = NotSet

\* pts = filtered_points(snip, mf)
SelectPoints ==
    /\ pc = "sel_call"
    /\ pts' = filtered_points(snip, map_filter)
    /\ pc' = "sel_done"
    /\ UNCHANGED <<snip, map_filter, sel, buttons, n_updates, n_reruns, interacted,
                   prev, signal, n_calls, scen, first>>

NextSel == SelectPoints

SpecSel == InitSel /\ [][NextSel]_vars

-----------------------------------------------------------------------------
(* The session state and its two operations (lines 129-147) *)

\* st.session_state.get("map_filter", {"kind": "ALL"})
session_get == IF map_filter = NotSet THEN AllFilter ELSE map_filter

\* line 135: new = {"kind": "ALL"}
reset_new_keeps_payload(prv) ==
    [f \in DOMAIN prv |-> IF f = "kind" THEN Str("ALL") ELSE prv[f]]

reset_new(prv) == AllFilter

\* line 143: new = {"kind": kind, **payload}; a key of payload overrides
build_filter_no_payload(kind, payload) == [f \in {"kind"} |-> kind]

build_filter(kind, payload) ==
    [f \in {"kind"} \cup DOMAIN payload |->
        IF f \in DOMAIN payload THEN payload[f] ELSE kind]

\* lines 138 and 146: prev != new, equality of dicts by value
changed_always(prv, new) == TRUE

changed_kind_only(prv, new) == prv["kind"] # new["kind"]

changed(prv, new) == prv # new

Bump(n, b) == IF b /\ n < MaxCount THEN n + 1 ELSE n

-----------------------------------------------------------------------------
(* SpecApi: set_map_filter and reset_map called directly, with any kind    *)
(* and any payload, from the state left by ensure_state()                  *)

KindAll == Str("ALL")
KindSnip == Str("SNIP")
KindMunicipio == Str("MUNICIPIO")
KindCodede == Str("CODEDE")
KindEntidad == Str("ENTIDAD")
KindEstado == Str("ESTADO")
KindFlag == Str("FLAG_INCONSISTENCIA")
KindOtro == Str("OTRO")

ClosedKinds ==
    {KindAll, KindSnip, KindMunicipio, KindCodede, KindEntidad, KindEstado, KindFlag}

ApiKinds == ClosedKinds \cup {KindOtro}

ApiPayloads ==
    {<<>>,
     Payload1("snip", Num(101)),
     Payload1("departamento", Gua), Payload1("departamento", Pet),
     [departamento |-> Gua, municipio |-> SanJose]}

\* progress along set_map_filter("CODEDE", {departamento: X}), reset_map(),
\* set_map_filter("CODEDE", {departamento: X}) made as the first three calls
ScenAfterSet(kind, payload, new) ==
    IF scen = 0 /\ kind = KindCodede /\ DOMAIN payload = {"departamento"} THEN 1
    ELSE IF scen = 2 /\ new = first THEN 3
    ELSE -1

ScenAfterReset == IF scen = 1 THEN 2 ELSE -1

CallSetMapFilter(kind, payload) ==
    /\ pc = "api"
    /\ n_calls < MaxCalls
    /\ LET prv == session_get
           new == build_filter(kind, payload)
       IN  /\ map_filter' = new
           /\ prev' = prv
           /\ signal' = changed(prv, new)
           /\ n_reruns' = IF changed(prv, new) THEN n_reruns + 1 ELSE n_reruns
           /\ scen' = ScenAfterSet(kind, payload, new)
           /\ first' = IF ScenAfterSet(kind, payload, new) = 1 THEN new
                       ELSE IF ScenAfterSet(kind, payload, new) = -1 THEN NotSet
                       ELSE first
    /\ n_calls' = n_calls + 1
    /\ UNCHANGED <<snip, pc, sel, buttons, pts, interacted, n_updates>>

CallResetMap ==
    /\ pc = "api"
    /\ n_calls < MaxCalls
    /\ LET prv == session_get
           new == reset_new(prv)
       IN  /\ map_filter' = new
           /\ prev' = prv
           /\ signal' = changed(prv, new)
           /\ n_reruns' = IF changed(prv, new) THEN n_reruns + 1 ELSE n_reruns
    /\ scen' = ScenAfterReset
    /\ first' = IF ScenAfterReset = -1 THEN NotSet ELSE first
    /\ n_calls' = n_calls + 1
    /\ UNCHANGED <<snip, pc, sel, buttons, pts, interacted, n_updates>>

InitApi ==
    /\ snip = NoFrame
    /\ map_filter = AllFilter
    /\ pc = "api"
    /\ sel = IdleSel
    /\ buttons = {}
    /\ pts = NoFrame
    /\ n_updates = 0 /\ n_reruns = 0 /\ interacted = FALSE
    /\ prev = NotSet /\ signal = FALSE /\ n_calls = 0 /\ scen = 0 /\ first = NotSet

NextApi ==
    \/ \E kind \in ApiKinds, payload \in ApiPayloads : CallSetMapFilter(kind, payload)
    \/ CallResetMap

SpecApi == InitApi /\ [][NextApi]_vars

-----------------------------------------------------------------------------
(* The tables of the dashboard and the rows a selection stands for *)

\* df.head(n)
head_rows(rows, n) == SubSeq(rows, 1, IF Len(rows) < n THEN Len(rows) ELSE n)

\* twice the number held by a numeric cell; a missing value sorts last
Twice(c) ==
    IF c[1] = "num" THEN 2 * c[2]
    ELSE IF c[1] = "frac" THEN 2 * c[2] + 1
    ELSE -1000

\* sort_values(["riesgo_fiscal","no_ejecutado_vigente"], ascending=False)
RiskBefore(a, b) ==
    \/ Twice(a["riesgo_fiscal"]) > Twice(b["riesgo_fiscal"])
    \/ /\ Twice(a["riesgo_fiscal"]) = Twice(b["riesgo_fiscal"])
       /\ Twice(a["no_ejecutado_vigente"]) >= Twice(b["no_ejecutado_vigente"])

\* sort_values("score_concentracion_baja_ejec", ascending=False)
ScoreBefore(a, b) ==
    Twice(a["score_concentracion_baja_ejec"]) >= Twice(b["score_concentracion_baja_ejec"])

Before(by, a, b) == IF by = "risk" THEN RiskBefore(a, b) ELSE ScoreBefore(a, b)

RECURSIVE InsertDesc(_, _, _)
InsertDesc(x, sorted, by) ==
    IF sorted = <<>> THEN <<x>>
    ELSE IF Before(by, sorted[1], x)
         THEN <<sorted[1]>> \o InsertDesc(x, Tail(sorted), by)
         ELSE <<x>> \o sorted

RECURSIVE SortRows(_, _)
SortRows(rows, by) ==
    IF rows = <<>> THEN <<>>
    ELSE InsertDesc(rows[Len(rows)], SortRows(SubSeq(rows, 1, Len(rows) - 1), by), by)

\* line 308
TopN == 30
\* line 340
ExplorerRows == 2000

\* the keys of snip.groupby("estado_auditoria", dropna=False), in sorted
\* order, the missing key last
EstadoOrder == <<EnEjecucion, Finalizado>>

by_estado(df) ==
    LET present(k) == \E i \in 1..Len(df.rows) : df.rows[i]["estado_auditoria"] = k
        missing == \E i \in 1..Len(df.rows) : isna(df.rows[i]["estado_auditoria"])
    IN  SelectSeq(EstadoOrder, present) \o (IF missing THEN <<NaN>> ELSE <<>>)

top(df) == head_rows(SortRows(df.rows, "risk"), TopN)

explorer(df) == head_rows(SortRows(df.rows, "risk"), ExplorerRows)

\* the aggregate extracts (lines 40-42), small instances of them
muni ==
    <<[departamento |-> Gua, municipio |-> SanJose, score_concentracion_baja_ejec |-> Num(3)],
      [departamento |-> Pet, municipio |-> Flores, score_concentracion_baja_ejec |-> Num(8)]>>

cod ==
    <<[departamento |-> Gua, score_concentracion_baja_ejec |-> Num(2)],
      [departamento |-> Pet, score_concentracion_baja_ejec |-> Num(6)]>>

ent ==
    <<[entidad_ejecutora |-> Muni1, score_concentracion_baja_ejec |-> Num(4)],
      [entidad_ejecutora |-> Mides, score_concentracion_baja_ejec |-> Half(1)]>>

topm == SortRows(muni, "score")
topc == SortRows(cod, "score")
tope == SortRows(ent, "score")

\* the project-level extract the dashboard runs on: two located projects and
\* one without coordinates
AppSnip ==
    Frame(SnipColumns,
          <<Point(Num(101), Gua, SanJose, Muni1, Finalizado, Num(1), Num(14), Num(-90), Num(5)),
            Point(Num(102), Pet, Flores, Mides, EnEjecucion, Num(0), Num(16), Num(-89), Num(9)),
            Point(Num(103), Gua, Flores, Muni1, Finalizado, NaN, NaN, Num(-91), Num(7))>>)

Tables == {"estado", "top", "snip", "mun", "cod", "ent"}

NRows(t) ==
    CASE t = "estado" -> Len(by_estado(snip))
      [] t = "top" -> Len(top(snip))
      [] t = "snip" -> Len(explorer(snip))
      [] t = "mun" -> Len(topm)
      [] t = "cod" -> Len(topc)
      [] t = "ent" -> Len(tope)

-----------------------------------------------------------------------------
(* Spec: one script run from top to bottom per user interaction or         *)
(* st.rerun(); the tables keep their selections from run to run, a button  *)
(* is pressed only in the run its click started                            *)

\* st.rerun(): the run is abandoned and the script starts again
Rerun ==
    /\ pc' = "ensure_state"
    /\ buttons' = {}
    /\ n_reruns' = Bump(n_reruns, TRUE)

\* the run goes on to the next statement; reaching the end it waits for
\* the user
Continue(next) ==
    /\ pc' = next
    /\ buttons' = IF next = "idle" THEN {} ELSE buttons
    /\ n_reruns' = n_reruns

\* set_map_filter(kind, payload) called at a statement followed by 'next'
set_map_filter(kind, payload, next) ==
    LET prv == session_get
        new == build_filter(kind, payload)
    IN  /\ map_filter' = new
        /\ n_updates' = Bump(n_updates, prv # new)
        /\ IF changed(prv, new) THEN Rerun ELSE Continue(next)

\* reset_map() called at a statement followed by 'next'
reset_map(next) ==
    LET prv == session_get
        new == reset_new(prv)
    IN  /\ map_filter' = new
        /\ n_updates' = Bump(n_updates, prv # new)
        /\ IF changed(prv, new) THEN Rerun ELSE Continue(next)

Skip(next) ==
    /\ Continue(next)
    /\ UNCHANGED <<map_filter, n_updates>>

Rest == <<snip, sel, interacted, prev, signal, n_calls, scen, first>>

\* lines 129-131, 149
ensure_state ==
    /\ pc = "ensure_state"
    /\ map_filter' = IF map_filter = NotSet THEN AllFilter ELSE map_filter
    /\ pc' = "reset_button"
    /\ UNCHANGED <<buttons, n_reruns, n_updates, pts>>
    /\ UNCHANGED Rest

\* lines 251-254
ResetButton ==
    /\ pc = "reset_button"
    /\ IF "reset" \in buttons THEN reset_map("render_map") ELSE Skip("render_map")
    /\ UNCHANGED pts
    /\ UNCHANGED Rest

\* lines 272-273
RenderMap ==
    /\ pc = "render_map"
    /\ pts' = filtered_points(snip, map_filter)
    /\ pc' = "tab_over_estado"
    /\ UNCHANGED <<map_filter, buttons, n_reruns, n_updates>>
    /\ UNCHANGED Rest

\* lines 298-305
TabOverEstado ==
    /\ pc = "tab_over_estado"
    /\ IF sel["estado"] # 0
       THEN set_map_filter(KindEstado,
                Payload1("estado_auditoria", by_estado(snip)[sel["estado"]]),
                "tab_over_top")
       ELSE Skip("tab_over_top")
    /\ UNCHANGED pts
    /\ UNCHANGED Rest

\* lines 317-324
TabOverTop ==
    /\ pc = "tab_over_top"
    /\ IF sel["top"] # 0
       THEN set_map_filter(KindSnip,
                Payload1("snip", Num(astype_int(top(snip)[sel["top"]]["snip"]))),
                "tab_snip")
       ELSE Skip("tab_snip")
    /\ UNCHANGED pts
    /\ UNCHANGED Rest

\* lines 342-349
TabSnip ==
    /\ pc = "tab_snip"
    /\ IF sel["snip"] # 0
       THEN set_map_filter(KindSnip,
                Payload1("snip", Num(astype_int(explorer(snip)[sel["snip"]]["snip"]))),
                "tab_mun")
       ELSE Skip("tab_mun")
    /\ UNCHANGED pts
    /\ UNCHANGED Rest

\* lines 360-368
TabMun ==
    /\ pc = "tab_mun"
    /\ IF sel["mun"] # 0
       THEN set_map_filter(KindMunicipio,
                [departamento |-> topm[sel["mun"]]["departamento"],
                 municipio |-> topm[sel["mun"]]["municipio"]],
                "tab_cod")
       ELSE Skip("tab_cod")
    /\ UNCHANGED pts
    /\ UNCHANGED Rest

\* lines 376-383
TabCod ==
    /\ pc = "tab_cod"
    /\ IF sel["cod"] # 0
       THEN set_map_filter(KindCodede,
                Payload1("departamento", topc[sel["cod"]]["departamento"]),
                "tab_ent")
       ELSE Skip("tab_ent")
    /\ UNCHANGED pts
    /\ UNCHANGED Rest

\* lines 391-398
TabEnt ==
    /\ pc = "tab_ent"
    /\ IF sel["ent"] # 0
       THEN set_map_filter(KindEntidad,
                Payload1("entidad_ejecutora", tope[sel["ent"]]["entidad_ejecutora"]),
                "tab_cal")
       ELSE Skip("tab_cal")
    /\ UNCHANGED pts
    /\ UNCHANGED Rest

\* lines 403-410; the end of the script
TabCal ==
    /\ pc = "tab_cal"
    /\ IF "flag_inconsistencia_estado_momento" \in snip.columns /\ "flag" \in buttons
       THEN set_map_filter(KindFlag, <<>>, "idle")
       ELSE Skip("idle")
    /\ UNCHANGED pts
    /\ UNCHANGED Rest

ScriptStep ==
    \/ ensure_state
    \/ ResetButton
    \/ RenderMap
    \/ TabOverEstado
    \/ TabOverTop
    \/ TabSnip
    \/ TabMun
    \/ TabCod
    \/ TabEnt
    \/ TabCal

\* a user interaction starts a run of the script
Interaction ==
    /\ pc = "idle"
    /\ pc' = "ensure_state"
    /\ n_updates' = 0
    /\ n_reruns' = 0
    /\ interacted' = TRUE
    /\ UNCHANGED <<snip, map_filter, pts, prev, signal, n_calls, scen, first>>

\* a click on an unselected row of a table (selection_mode="single-row")
SelectRow(t, r) ==
    /\ Interaction
    /\ sel[t] # r
    /\ sel' = [sel EXCEPT ![t] = r]
    /\ UNCHANGED buttons

\* a click on the selected row of a table clears the selection
DeselectRow(t) ==
    /\ Interaction
    /\ sel[t] # 0
    /\ sel' = [sel EXCEPT ![t] = 0]
    /\ UNCHANGED buttons

\* "Reset (Todos los puntos)", line 253
PressReset ==
    /\ Interaction
    /\ buttons' = {"reset"}
    /\ UNCHANGED sel

\* "Ver estos puntos en el mapa", line 409
PressFlag ==
    /\ Interaction
    /\ buttons' = {"flag"}
    /\ UNCHANGED sel

Init ==
    /\ snip = coerce_snip(AppSnip)
    /\ map_filter = NotSet
    /\ pc = "ensure_state"
    /\ sel = IdleSel
    /\ buttons = {}
    /\ pts = NoFrame
    /\ n_updates = 0 /\ n_reruns = 0 /\ interacted = FALSE
    /\ prev = NotSet /\ signal = FALSE /\ n_calls = 0 /\ scen = 0 /\ first = NotSet

Next ==
    \/ ScriptStep
    \/ \E t \in Tables : \E r \in 1..NRows(t) : SelectRow(t, r)
    \/ \E t \in Tables : DeselectRow(t)
    \/ PressReset
    \/ PressFlag

Spec == Init /\ [][Next]_vars

\* once started, a run of the script is carried through
FairSpec == Spec /\ WF_vars(ScriptStep)

-----------------------------------------------------------------------------
(* Properties *)

Range(f) == {f[i] : i \in DOMAIN f}

IsNumber(c) == c[1] \in {"num", "frac"}

\* a point has both coordinates: the columns exist and hold numbers
HasCoords(p) ==
    /\ {"latitud", "longitud"} \subseteq DOMAIN p
    /\ IsNumber(p["latitud"])
    /\ IsNumber(p["longitud"])

\* C1: a call of set_map_filter or reset_map signals a redraw exactly when
\* the state it stores differs by value from the state it found, and the
\* sequence set(CODEDE X), reset, set(CODEDE X) made from All gives three
\* redraws and ends in the state stored by its first call
C1_RedrawIffChanged ==
    /\ (pc = "api" /\ n_calls > 0) => (signal <=> (prev # map_filter))
    /\ (pc = "api" /\ scen = 3) => (n_reruns = 3 /\ map_filter = first)

C1_Witness ==
    /\ pc = "api"
    /\ scen = 3
    /\ signal
    /\ map_filter = MkFilter("CODEDE", Payload1("departamento", Pet))

\* C2: a call of reset_map leaves map_filter = {kind: ALL}, whatever state
\* it is called in
C2_ResetYieldsAll == [][CallResetMap => map_filter' = AllFilter]_vars

C2_Witness ==
    /\ pc = "api"
    /\ scen = 2
    /\ prev = MkFilter("CODEDE", Payload1("departamento", Gua))
    /\ map_filter = AllFilter

\* C3: a kind outside the closed tag set is never stored as the session's
\* filter state
C3_UnknownKindNeverStored == pc = "api" => map_filter["kind"] \in ClosedKinds

\* C4: no point lacking a latitude or a longitude is in the result of
\* filtered_points, under any filter state, and every row of the result has
\* both coordinates
C4_CoordinatePrecondition ==
    pc = "sel_done" =>
        /\ \A i \in 1..Len(pts.rows) : HasCoords(pts.rows[i])
        /\ \A i \in 1..Len(snip.rows) :
              ~HasCoords(snip.rows[i]) => snip.rows[i] \notin Range(pts.rows)

C4_Witness ==
    /\ pc = "sel_done"
    /\ map_filter["kind"] = KindOtro
    /\ Len(snip.rows) = 2
    /\ Len(pts.rows) = 1
    /\ "longitud" \in snip.columns
    /\ \E i \in 1..2 : isna(to_numeric(snip.rows[i]["longitud"]))

\* the predicate of a variant, on a point
VariantHolds(mf, p) ==
    CASE mf["kind"] = KindAll -> TRUE
      [] mf["kind"] = KindSnip -> p["snip"] = mf["snip"]
      [] mf["kind"] = KindMunicipio ->
            p["departamento"] = mf["departamento"] /\ p["municipio"] = mf["municipio"]
      [] mf["kind"] = KindCodede -> p["departamento"] = mf["departamento"]
      [] mf["kind"] = KindEntidad -> p["entidad_ejecutora"] = mf["entidad_ejecutora"]
      [] mf["kind"] = KindEstado -> p["estado_auditoria"] = mf["estado_auditoria"]

SixKinds == {KindAll, KindSnip, KindMunicipio, KindCodede, KindEntidad, KindEstado}

\* C5: under All, BySnip, ByMunicipality, ByDepartment, ByExecutingEntity and
\* ByAuditStatus the result of filtered_points is the sub-sequence of the
\* point set made of the points that have both coordinates and satisfy the
\* variant's predicate, an empty result included
C5_ExactSubsequence ==
    (pc = "sel_done" /\ map_filter["kind"] \in SixKinds) =>
        LET keep(p) == HasCoords(p) /\ VariantHolds(map_filter, p)
        IN  /\ pts.columns = snip.columns
            /\ pts.rows = SelectSeq(snip.rows, keep)

C5_Witness ==
    /\ pc = "sel_done"
    /\ map_filter = MkFilter("MUNICIPIO", [departamento |-> Gua, municipio |-> SanJose])
    /\ Len(snip.rows) = 2
    /\ snip.rows[1]["municipio"] = Flores
    /\ snip.rows[1]["departamento"] = Gua
    /\ HasCoords(snip.rows[1])
    /\ pts.rows = <<snip.rows[2]>>

\* C6 as stated: under ByInconsistencyFlag the result is made of the points
\* with both coordinates whose flag is truthy (not missing and not zero)
Truthy(c) == (~isna(c)) /\ c # Num(0)

C6_TruthyFlagIncluded ==
    (pc = "sel_done" /\ map_filter["kind"] = KindFlag) =>
        LET keep(p) == HasCoords(p) /\ Truthy(p["flag_inconsistencia_estado_momento"])
        IN  pts.rows = SelectSeq(snip.rows, keep)

\* C6 amended: under ByInconsistencyFlag the result is made of the points
\* with both coordinates whose flag f is a number with 1 <= f < 2 (its
\* integer part is 1); a missing, zero or any other flag is excluded
FlagIsOne(c) == IsNumber(c) /\ 2 <= Twice(c) /\ Twice(c) < 4

C6_FlagIntegerPartOne ==
    (pc = "sel_done" /\ map_filter["kind"] = KindFlag) =>
        LET keep(p) == HasCoords(p) /\ FlagIsOne(p["flag_inconsistencia_estado_momento"])
        IN  pts.rows = SelectSeq(snip.rows, keep)

C6_Witness ==
    /\ pc = "sel_done"
    /\ map_filter["kind"] = KindFlag
    /\ Len(snip.rows) = 2
    /\ HasCoords(snip.rows[1]) /\ HasCoords(snip.rows[2])
    /\ snip.rows[1]["flag_inconsistencia_estado_momento"] = Num(2)
    /\ snip.rows[2]["flag_inconsistencia_estado_momento"] = Half(1)
    /\ pts.rows = <<snip.rows[2]>>

\* C7: no user interaction causes a second change of map_filter or a second
\* st.rerun()
C7_OneUpdateOneRedraw == n_updates <= 1 /\ n_reruns <= 1

\* the fields a kind requires
RequiredFields(kind) ==
    CASE kind = KindSnip -> {"snip"}
      [] kind = KindMunicipio -> {"departamento", "municipio"}
      [] kind = KindCodede -> {"departamento"}
      [] kind = KindEntidad -> {"entidad_ejecutora"}
      [] kind = KindEstado -> {"estado_auditoria"}
      [] OTHER -> {}

WellFormed(mf) ==
    /\ "kind" \in DOMAIN mf
    /\ mf["kind"] \in ClosedKinds
    /\ DOMAIN mf \ {"kind"} = RequiredFields(mf["kind"])

\* C8: from the first ensure_state() on, map_filter is one variant of the
\* closed tag set with exactly the fields its kind requires, and it is All
\* until the first user interaction
C8_WellFormedState ==
    /\ map_filter = NotSet => (pc = "ensure_state" /\ ~interacted)
    /\ map_filter # NotSet => WellFormed(map_filter)
    /\ (map_filter # NotSet /\ ~interacted) => map_filter = AllFilter

C8_Witness ==
    /\ pc = "idle"
    /\ map_filter = MkFilter("MUNICIPIO", [departamento |-> Pet, municipio |-> Flores])

\* C9: the chain of script runs started by a user interaction ends: the
\* script reaches its end without st.rerun()
C9_RerunChainsEnd == (pc # "idle") ~> (pc = "idle")

====
